---- MODULE Spec2Model ----
(***************************************************************************)
(* State machine of the chat application component (src/App.tsx): the     *)
(* component state, the user-action handlers and the asynchronous         *)
(* continuation of handleSendMessage.  Strings are TLA+ strings; the      *)
(* clock is Date.now() in milliseconds.                                    *)
(*                                                                         *)
(* Every handler runs to its first await in one step: the component is    *)
(* re-rendered between two events, so a handler reads the state left by   *)
(* the step before it.  A suspended handleSendMessage keeps the values it *)
(* closed over (activeConversationId, currentConversationId, userMsg) and *)
(* resumes in a later step.  The handlers of the chat screen are offered  *)
(* only while a user is signed in (the login screen is rendered           *)
(* otherwise, lines 226-285).  Timers and the network take any time,      *)
(* including none on this clock's scale.                                   *)
(***************************************************************************)
EXTENDS Integers, Sequences, FiniteSets, TLC

VARIABLES
    user,                  \* useState<UserProfile | null>
    isLoginLoading,        \* useState(false); the login timer is pending iff TRUE
    conversations,         \* useState<Conversation[]>
    activeConversationId,  \* useState<string | null>
    messages,              \* useState<Message[]>
    inputText,             \* useState('')
    isSending,             \* useState(false), the busy flag
    apiKey,                \* useState('')
    versionId,             \* useState('production')
    inflight,              \* suspended handleSendMessage calls (closure + await position)
    now,                   \* Date.now()
    event,                 \* history: the last user action that ran
    origin,                \* history: for each transcript entry, the conversation it was produced for
    threadKeys,            \* history: session keys sent to the service since the thread began
    uncaught               \* history: an exception left handleSendMessage

vars == <<user, isLoginLoading, conversations, activeConversationId, messages,
          inputText, isSending, apiKey, versionId, inflight, now, event,
          origin, threadKeys, uncaught>>

-----------------------------------------------------------------------------
(* Bounds of the exploration *)

ClockSpan == 1
MaxMsgs == 3
MaxConvs == 2

(* Program constants *)

ClockStart == 1000
TitleLen == 30

MaxClock == ClockStart + ClockSpan

NULL == "<null>"

MOCK_USER == [id |-> "user-123", name |-> "Nordik Staff"]

INITIAL_MESSAGE ==
    [id |-> "msg-0", role |-> "assistant",
     content |-> "Hello! I am the Nordik Assistant. How can I help you with our protocols or products today?"]

MOCK_CONVERSATION == [id |-> "conv-1", title |-> "Cold Plunge Specs"]

FALLBACK_NOTICE == "I received a response, but it contained no text. (Check console for traces)"

-----------------------------------------------------------------------------
(* String primitives of the JavaScript runtime used by the handlers *)

Min(a, b) == IF a <= b THEN a ELSE b

IsSpace(c) == c \in {" ", "\n"}

RECURSIVE TrimStart(_)
TrimStart(s) ==
    IF s = "" THEN ""
    ELSE IF IsSpace(Head(s)) THEN TrimStart(Tail(s)) ELSE s

RECURSIVE TrimEnd(_)
TrimEnd(s) ==
    IF s = "" THEN ""
    ELSE IF IsSpace(SubSeq(s, Len(s), Len(s)))
         THEN TrimEnd(SubSeq(s, 1, Len(s) - 1))
         ELSE s

\* String.prototype.trim
Trim(s) == TrimEnd(TrimStart(s))

\* String.prototype.substring(0, n)
Substring0(s, n) == SubSeq(s, 1, Min(n, Len(s)))

\* String.prototype.includes
Includes(s, sub) ==
    \E i \in 0..(Len(s) - Len(sub)) : SubSeq(s, i + 1, i + Len(sub)) = sub

\* encodeURIComponent, on the characters that occur in session keys and inputs
EncodeChar(c) ==
    CASE c = " "  -> "%20"
      [] c = "\n" -> "%0A"
      [] c = "<"  -> "%3C"
      [] c = ">"  -> "%3E"
      [] c = "\"" -> "%22"
      [] OTHER    -> c

RECURSIVE EncodeURIComponent(_)
EncodeURIComponent(s) ==
    IF s = "" THEN "" ELSE EncodeChar(Head(s)) \o EncodeURIComponent(Tail(s))

-----------------------------------------------------------------------------
(* Values built by handleSendMessage *)

NoUser == [id |-> NULL, name |-> NULL]

\* userMsg, lines 107-112
UserMsg(text, t) == [id |-> ToString(t), role |-> "user", content |-> text]

\* assistantMsg, lines 183-188
AssistantMsg(content, t) ==
    [id |-> ToString(t + 1), role |-> "assistant", content |-> Trim(content)]

\* the message appended by the catch block, lines 204-209
ErrorText(message) == IF message # "" THEN message ELSE "Unknown error"

ErrorMsg(message, t) ==
    [id |-> ToString(t + 1), role |-> "assistant",
     content |-> "Error connecting to Voiceflow: " \o ErrorText(message)
                 \o ". \n\nPlease check your API Key in Settings."]

\* lines 121-124
MintConversationId(t) == "conv-" \o ToString(t)

CurrentConversationId(active, t) ==
    IF active = NULL THEN MintConversationId(t) ELSE active

\* line 127
VfUserId(conversationId) == "user-" \o conversationId

\* lines 134-153: the outbound request
CleanVersion(v) == IF Trim(v) # "" THEN Trim(v) ELSE "production"

Request(key, ver, sessionKey, text) ==
    [url     |-> "https://general-runtime.voiceflow.com/state/user/"
                 \o EncodeURIComponent(sessionKey) \o "/interact",
     auth    |-> Trim(key),
     version |-> CleanVersion(ver),
     payload |-> text]

NoRequest == [url |-> NULL]
NoResponse == [status |-> 0]

\* the error built without the response body
ApiErrorMessageNoBody(status, errorText) ==
    "VF API Error (" \o ToString(status) \o ")"

\* line 158
ApiErrorMessage(status, errorText) ==
    "VF API Error (" \o ToString(status) \o "): " \o errorText

\* a parser that forgets the "speak" traces
IsTextTraceOnly(trace) == trace.type = "text"

\* lines 164-168
IsTextTrace(trace) == trace.type = "text" \/ trace.type = "speak"

RECURSIVE ParseTraces(_)
ParseTraces(traces) ==
    IF traces = <<>> THEN ""
    ELSE (IF IsTextTrace(Head(traces))
          THEN Head(traces).payload.message \o "\n"
          ELSE "")
         \o ParseTraces(Tail(traces))

\* trace.payload.message throws a TypeError when the trace has no payload
TraceThrows(traces) ==
    \E i \in 1..Len(traces) :
        IsTextTrace(traces[i]) /\ "message" \notin DOMAIN traces[i].payload

TYPE_ERROR == "Cannot read properties of undefined (reading 'message')"

\* lines 170-174
AssistantContent(traces) ==
    IF ParseTraces(traces) = "" THEN FALLBACK_NOTICE ELSE ParseTraces(traces)

\* line 179
MockContent(text) ==
    "[MOCK MODE] You asked: \"" \o text
    \o "\". \n\nTo test your real agent, click the Settings gear in the sidebar and enter your Voiceflow API Key."

\* line 197
Title(text) == Substring0(text, TitleLen) \o "..."

\* lines 96-99
HistoryMessages(id) ==
    << [id |-> "hist-" \o id \o "-1", role |-> "user",
        content |-> "Previous question about durability..."],
       [id |-> "hist-" \o id \o "-2", role |-> "assistant",
        content |-> "The durability standards for Nordik tubs are..."] >>

-----------------------------------------------------------------------------
(* The environment: what the user types and what the network answers *)

LongText == " How long should a cold plunge session last?"

Inputs == {"  ", LongText}

Keys == {"", "VF.DM.key"}

Versions == {"production"}

Statuses == {200, 401}

NetErrors == {"Failed to fetch", ""}

Trace(type, message) == [type |-> type, payload |-> [message |-> message]]

BareTrace(type) == [type |-> type, payload |-> [undefined |-> TRUE]]

TraceLists ==
    { << Trace("debug", "x"), Trace("text", " Hi"), BareTrace("end"),
         Trace("speak", "there ") >>,
      << Trace("debug", "x") >>,
      << Trace("text", "") >>,
      << BareTrace("text") >> }

BrokenBody == [kind |-> "broken", error |-> "Failed to fetch"]

OkBodies ==
    { [kind |-> "json", traces |-> t] : t \in TraceLists }
    \cup { [kind |-> "invalid", error |-> "Unexpected token < in JSON at position 0"],
           BrokenBody }

ErrorBodies == { [kind |-> "raw", text |-> "unauthorized"], BrokenBody }

\* Response.ok
Ok(status) == status >= 200 /\ status <= 299

-----------------------------------------------------------------------------

Init ==
    /\ user = NoUser
    /\ isLoginLoading = FALSE
    /\ conversations = <<>>
    /\ activeConversationId = NULL
    /\ messages = <<>>
    /\ inputText = ""
    /\ isSending = FALSE
    /\ apiKey = ""
    /\ versionId = "production"
    /\ inflight = <<>>
    /\ now = ClockStart
    /\ event = [op |-> "none", id |-> NULL]
    /\ origin = <<>>
    /\ threadKeys = {}
    /\ uncaught = FALSE

Mark(op, id) == event' = [op |-> op, id |-> id]

Remove(seq, i) == SubSeq(seq, 1, i - 1) \o SubSeq(seq, i + 1, Len(seq))

\* the clock advances between any two steps
Tick ==
    /\ now < MaxClock
    /\ now' = now + 1
    /\ UNCHANGED <<user, isLoginLoading, conversations, activeConversationId,
                   messages, inputText, isSending, apiKey, versionId, inflight,
                   event, origin, threadKeys, uncaught>>

handleLogin ==
    /\ user = NoUser
    /\ ~isLoginLoading
    /\ isLoginLoading' = TRUE
    /\ Mark("login", NULL)
    /\ UNCHANGED <<user, conversations, activeConversationId, messages,
                   inputText, isSending, apiKey, versionId, inflight, now,
                   origin, threadKeys, uncaught>>

\* the setTimeout callback of handleLogin
LoginTimeout ==
    /\ isLoginLoading
    /\ user' = MOCK_USER
    /\ isLoginLoading' = FALSE
    /\ conversations' = << MOCK_CONVERSATION >>
    /\ UNCHANGED <<activeConversationId, messages, inputText, isSending,
                   apiKey, versionId, inflight, now, event, origin, threadKeys, uncaught>>

handleLogout ==
    /\ user # NoUser
    /\ user' = NoUser
    /\ conversations' = <<>>
    /\ messages' = <<>>
    /\ origin' = <<>>
    /\ activeConversationId' = NULL
    /\ threadKeys' = {}
    /\ Mark("logout", NULL)
    /\ UNCHANGED <<isLoginLoading, inputText, isSending, apiKey, versionId,
                   inflight, now, uncaught>>

handleNewChat ==
    /\ user # NoUser
    /\ activeConversationId' = NULL
    /\ messages' = << INITIAL_MESSAGE >>
    /\ origin' = << NULL >>
    /\ threadKeys' = {}
    /\ Mark("newChat", NULL)
    /\ UNCHANGED <<user, isLoginLoading, conversations, inputText, isSending,
                   apiKey, versionId, inflight, now, uncaught>>

handleSelectConversation(id) ==
    /\ user # NoUser
    /\ activeConversationId' = id
    /\ messages' = HistoryMessages(id)
    /\ origin' = << id, id >>
    /\ threadKeys' = {}
    /\ Mark("selectConversation", id)
    /\ UNCHANGED <<user, isLoginLoading, conversations, inputText, isSending,
                   apiKey, versionId, inflight, now, uncaught>>

handleSaveSettings(key, ver) ==
    /\ user # NoUser
    /\ apiKey' = key
    /\ versionId' = ver
    /\ IF activeConversationId = NULL
       THEN messages' = << INITIAL_MESSAGE >> /\ origin' = << NULL >>
       ELSE UNCHANGED <<messages, origin>>
    /\ Mark("saveSettings", NULL)
    /\ UNCHANGED <<user, isLoginLoading, conversations, activeConversationId,
                   inputText, isSending, inflight, now, threadKeys, uncaught>>

\* the textarea's onChange
setInputText(text) ==
    /\ user # NoUser
    /\ inputText' = text
    /\ UNCHANGED <<user, isLoginLoading, conversations, activeConversationId,
                   messages, isSending, apiKey, versionId, inflight, now,
                   event, origin, threadKeys, uncaught>>

-----------------------------------------------------------------------------
(* handleSendMessage: the synchronous part, up to the first await *)

\* the guard without its busy-flag test
RejectedBlankOnly(text, busy) == Trim(text) = ""

\* line 104: if (!inputText.trim() || isSending) return;
Rejected(text, busy) == Trim(text) = "" \/ busy

\* what the call keeps across its awaits
Call(active, conversationId, userMsg, key, ver) ==
    [pc |-> IF key # "" THEN "fetch" ELSE "mock",
     activeConversationId |-> active,
     currentConversationId |-> conversationId,
     userMsg |-> userMsg,
     request |-> IF key # ""
                 THEN Request(key, ver, VfUserId(conversationId), userMsg.content)
                 ELSE NoRequest,
     response |-> NoResponse]

\* Date.now() at line 123 is read only when no conversation is active
MintTimes == IF activeConversationId = NULL
             THEN {t \in {now, now + 1} : t <= MaxClock}
             ELSE {now}

handleSendMessage ==
    /\ user # NoUser
    /\ Mark("sendMessage", NULL)
    /\ IF Rejected(inputText, isSending)
       THEN UNCHANGED <<user, isLoginLoading, conversations, activeConversationId,
                        messages, inputText, isSending, apiKey, versionId,
                        inflight, now, origin, threadKeys, uncaught>>
       ELSE /\ Len(messages) < MaxMsgs
            /\ activeConversationId = NULL => Len(conversations) < MaxConvs
            /\ \E t \in MintTimes :
                 LET userMsg == UserMsg(inputText, now)
                     call == Call(activeConversationId,
                                  CurrentConversationId(activeConversationId, t),
                                  userMsg, apiKey, versionId)
                 IN /\ messages' = Append(messages, userMsg)
                    /\ origin' = Append(origin, activeConversationId)
                    /\ inputText' = ""
                    /\ isSending' = TRUE
                    /\ inflight' = Append(inflight, call)
                    /\ now' = t
                    /\ threadKeys' = IF call.pc = "fetch"
                                     THEN threadKeys \cup {call.request.url}
                                     ELSE threadKeys
            /\ UNCHANGED <<user, isLoginLoading, conversations,
                           activeConversationId, apiKey, versionId, uncaught>>

-----------------------------------------------------------------------------
(* handleSendMessage: the continuations after each await *)

Success(content) == [ok |-> TRUE, content |-> content]
Failure(message) == [ok |-> FALSE, message |-> message]

\* a catch block that swallows the error
MessagesAfterSilent(msgs, outcome, t) ==
    IF outcome.ok THEN Append(msgs, AssistantMsg(outcome.content, t)) ELSE msgs

\* lines 190 and 204: the message appended when the call ends
MessagesAfter(msgs, outcome, t) ==
    Append(msgs, IF outcome.ok THEN AssistantMsg(outcome.content, t)
                                ELSE ErrorMsg(outcome.message, t))

\* line 193: if (!activeConversationId), inside the try block
RegistersConversation(outcome, active) == outcome.ok /\ active = NULL

\* line 202: catch (e: any) takes every exception thrown in the try block
Caught(outcome) == TRUE

\* the flag cleared at the end of the try block instead of in finally
BusyAfterTryOnly(outcome) == ~outcome.ok

\* lines 210-212: finally { setIsSending(false) }
BusyAfter(outcome) == FALSE

Settle(i, outcome) ==
    LET call == inflight[i] IN
    /\ messages' = MessagesAfter(messages, outcome, now)
    /\ origin' = Append(origin, call.activeConversationId)
    /\ IF RegistersConversation(outcome, call.activeConversationId)
       THEN /\ activeConversationId' = call.currentConversationId
            /\ conversations' =
                 << [id |-> call.currentConversationId,
                     title |-> Title(call.userMsg.content)] >> \o conversations
       ELSE UNCHANGED <<activeConversationId, conversations>>
    /\ isSending' = BusyAfter(outcome)
    /\ inflight' = Remove(inflight, i)
    /\ uncaught' = (uncaught \/ ~Caught(outcome))
    /\ UNCHANGED <<user, isLoginLoading, inputText, apiKey, versionId, now,
                   event, threadKeys>>

\* await fetch(...) rejects
FetchReject(i, message) ==
    /\ inflight[i].pc = "fetch"
    /\ Settle(i, Failure(message))

\* await fetch(...) resolves with a response
FetchResolve(i, status, body) ==
    /\ inflight[i].pc = "fetch"
    /\ inflight' = [inflight EXCEPT
                      ![i].pc = IF Ok(status) THEN "json" ELSE "text",
                      ![i].response = [status |-> status, body |-> body]]
    /\ UNCHANGED <<user, isLoginLoading, conversations, activeConversationId,
                   messages, inputText, isSending, apiKey, versionId, now,
                   event, origin, threadKeys, uncaught>>

\* lines 157-158: await response.text() settles
TextOutcome(response) ==
    IF response.body.kind = "raw"
    THEN Failure(ApiErrorMessage(response.status, response.body.text))
    ELSE Failure(response.body.error)

TextSettle(i) ==
    /\ inflight[i].pc = "text"
    /\ Settle(i, TextOutcome(inflight[i].response))

\* lines 161-174: await response.json() settles
JsonOutcome(response) ==
    IF response.body.kind = "json"
    THEN IF TraceThrows(response.body.traces)
         THEN Failure(TYPE_ERROR)
         ELSE Success(AssistantContent(response.body.traces))
    ELSE Failure(response.body.error)

JsonSettle(i) ==
    /\ inflight[i].pc = "json"
    /\ Settle(i, JsonOutcome(inflight[i].response))

\* line 178-179: the mock delay elapses
MockTimeout(i) ==
    /\ inflight[i].pc = "mock"
    /\ Settle(i, Success(MockContent(inflight[i].userMsg.content)))

-----------------------------------------------------------------------------

ConversationIds == {conversations[k].id : k \in 1..Len(conversations)}

Calls == 1..Len(inflight)

Completes ==
    \E i \in Calls :
        \/ \E message \in NetErrors : FetchReject(i, message)
        \/ TextSettle(i)
        \/ JsonSettle(i)
        \/ MockTimeout(i)

Responds ==
    \E i \in Calls, status \in Statuses :
        \E body \in (IF Ok(status) THEN OkBodies ELSE ErrorBodies) :
            FetchResolve(i, status, body)

Next ==
    \/ Tick
    \/ handleLogin
    \/ LoginTimeout
    \/ handleLogout
    \/ handleNewChat
    \/ \E id \in ConversationIds : handleSelectConversation(id)
    \/ \E key \in Keys, ver \in Versions : handleSaveSettings(key, ver)
    \/ \E text \in Inputs : setInputText(text)
    \/ handleSendMessage
    \/ Responds
    \/ Completes

Spec == Init /\ [][Next]_vars

(* The same handlers under a smaller environment, for the liveness check:
   one typed input, one response body for each way a call can end, and sends
   only into short transcripts. *)

LiveMaxMsgs == 1

LiveInputs == {LongText}

LiveNetErrors == {"Failed to fetch"}

LiveOkBodies ==
    { [kind |-> "json", traces |-> << Trace("text", "Hi"), Trace("speak", "there") >>],
      [kind |-> "json", traces |-> << BareTrace("text") >>],
      [kind |-> "invalid", error |-> "Unexpected token < in JSON at position 0"] }

LiveErrorBodies == { [kind |-> "raw", text |-> "unauthorized"] }

LiveCompletes ==
    \E i \in Calls :
        \/ \E message \in LiveNetErrors : FetchReject(i, message)
        \/ TextSettle(i)
        \/ JsonSettle(i)
        \/ MockTimeout(i)

LiveResponds ==
    \E i \in Calls, status \in Statuses :
        \E body \in (IF Ok(status) THEN LiveOkBodies ELSE LiveErrorBodies) :
            FetchResolve(i, status, body)

LiveNext ==
    \/ Tick
    \/ handleLogin
    \/ LoginTimeout
    \/ handleLogout
    \/ handleNewChat
    \/ \E id \in ConversationIds : handleSelectConversation(id)
    \/ \E key \in Keys, ver \in Versions : handleSaveSettings(key, ver)
    \/ \E text \in LiveInputs : setInputText(text)
    \/ Len(messages) <= LiveMaxMsgs /\ handleSendMessage
    \/ LiveResponds
    \/ LiveCompletes

\* every await of a call in flight eventually settles
LiveSpec ==
    Init /\ [][LiveNext]_vars /\ WF_vars(LiveResponds) /\ WF_vars(LiveCompletes)

TypeOK ==
    /\ user \in {NoUser, MOCK_USER}
    /\ isLoginLoading \in BOOLEAN
    /\ isSending \in BOOLEAN
    /\ now \in ClockStart..MaxClock
    /\ Len(origin) = Len(messages)
    /\ \A k \in 1..Len(messages) : messages[k].role \in {"user", "assistant"}

-----------------------------------------------------------------------------
(* Steps of a handleSendMessage call, read off the calls in flight *)

Started == Len(inflight') > Len(inflight)
Finished == Len(inflight) = 1 /\ inflight' = <<>>
Awaiting == Len(inflight') = Len(inflight) /\ inflight' # inflight

SendInvoked == event' # event /\ event'.op = "sendMessage"

Last(seq) == seq[Len(seq)]

Range(seq) == {seq[k] : k \in 1..Len(seq)}

AppendsOne(role) ==
    /\ Len(messages') = Len(messages) + 1
    /\ SubSeq(messages', 1, Len(messages)) = messages
    /\ Last(messages').role = role

(* C1 -- single flight: the busy flag is set exactly while a call is in
   flight, at most one call is in flight, and a sendMessage invoked while the
   flag is set changes neither the transcript, the registry, the active
   conversation id, the input buffer nor the calls in flight. *)
C1_SingleFlight ==
    /\ [](Len(inflight) <= 1 /\ (isSending <=> inflight # <<>>))
    /\ [][SendInvoked /\ isSending =>
            UNCHANGED <<messages, conversations, activeConversationId,
                        inputText, inflight>>]_vars

\* a sendMessage was ignored while a call was in flight: the transcript still
\* is the fresh greeting although the last user action is a send
C1_Witness ==
    /\ event.op = "sendMessage"
    /\ isSending
    /\ Trim(inputText) # ""
    /\ messages = << INITIAL_MESSAGE >>

(* C2 -- an accepted sendMessage (input not blank, no call in flight) appends
   exactly one user message carrying the input when it starts, nothing while
   it awaits, and exactly one assistant message when it ends. *)
C2_OneUserOneAssistant ==
    [][ /\ (SendInvoked /\ Trim(inputText) # "" /\ ~isSending) => Started
        /\ Started => /\ Trim(inputText) # "" /\ ~isSending
                      /\ AppendsOne("user")
                      /\ Last(messages').content = inputText
        /\ Awaiting => messages' = messages
        /\ Finished => AppendsOne("assistant") ]_vars

\* a call has ended in failure: its user message is followed by the error entry
C2_Witness ==
    /\ inflight = <<>>
    /\ \E k \in 1..(Len(messages) - 1) :
        /\ messages[k].role = "user" /\ messages[k].content = LongText
        /\ messages[k + 1].role = "assistant"
        /\ Includes(messages[k + 1].content, "Error connecting to Voiceflow")

(* C3 -- guaranteed release: whenever the busy flag is set it is eventually
   cleared again, given that every await of the call in flight settles; the
   step that ends a call, in the try block or in the catch block, leaves the
   flag clear, so the guard accepts the next non-blank input. *)
C3_Release ==
    /\ isSending ~> ~isSending
    /\ [][Finished => ~isSending' /\ ~Rejected(LongText, isSending')]_vars

\* the flag is clear again after a call that ended in the catch block
C3_Witness ==
    /\ ~isSending
    /\ messages # <<>>
    /\ Includes(Last(messages).content, "Error connecting to Voiceflow")

(* C4 -- every failing await ends the call with one assistant message that
   carries the error text; for a non-success response whose body was read the
   message holds the status code and the body; no exception leaves the
   handler. *)
FailureText(call) ==
    CASE call.pc = "text" /\ call.response.body.kind = "raw" ->
             {ToString(call.response.status), call.response.body.text}
      [] call.pc = "text" /\ call.response.body.kind # "raw" ->
             {call.response.body.error}
      [] call.pc = "json" /\ call.response.body.kind # "json" ->
             {call.response.body.error}
      [] call.pc = "json" /\ call.response.body.kind = "json" ->
             IF TraceThrows(call.response.body.traces) THEN {TYPE_ERROR} ELSE {}
      [] OTHER -> {}

C4_FailuresSurface ==
    /\ []~uncaught
    /\ [][Finished =>
            /\ AppendsOne("assistant")
            /\ \A text \in FailureText(inflight[1]) :
                   Includes(Last(messages').content, text)
            /\ (inflight[1].pc = "fetch") =>
                   \E message \in NetErrors :
                       Last(messages').content = ErrorMsg(message, now).content ]_vars

\* a 401 response with body "unauthorized" has been reported
C4_Witness ==
    /\ messages # <<>>
    /\ Last(messages).role = "assistant"
    /\ Includes(Last(messages).content, "401")
    /\ Includes(Last(messages).content, "unauthorized")


(* C5 -- a call started in the new-chat state registers, when it ends, exactly
   one summary at the head of the registry: its id is the id minted for the
   call and becomes the active id, its title is the first 30 characters of the
   user's text followed by "..."; a call started in an active conversation
   registers nothing. *)
First30(text) == IF Len(text) > 30 THEN SubSeq(text, 1, 30) ELSE text

C5_Claim ==
    [][Finished =>
        IF inflight[1].activeConversationId = NULL
        THEN /\ conversations' =
                  << [id |-> inflight[1].currentConversationId,
                      title |-> First30(inflight[1].userMsg.content) \o "..."] >>
                  \o conversations
             /\ activeConversationId' = inflight[1].currentConversationId
        ELSE conversations' = conversations ]_vars

(* C6 -- session-key stability: the sends of one thread (no newChat,
   selectConversation or logout between them) all address the same session
   resource of the dialogue service. *)
C6_Claim == Cardinality(threadKeys) <= 1

(* C7 -- as long as the last user action is selectConversation(id), the
   transcript is exactly the two placeholder messages of id and id is the
   active conversation. *)
C7_Claim ==
    event.op = "selectConversation" =>
        /\ messages = HistoryMessages(event.id)
        /\ activeConversationId = event.id

(* C8 -- a successful response read with a credential yields an assistant
   message whose content is the messages of the "text" and "speak" traces, in
   response order, joined by newlines and trimmed, or the fallback notice when
   there is no such trace; either way the entry is a reply, not an error. *)
RECURSIVE Join(_)
Join(parts) ==
    IF Len(parts) = 1 THEN parts[1]
    ELSE parts[1] \o "\n" \o Join(Tail(parts))

Spoken(traces) ==
    LET kept == SelectSeq(traces, LAMBDA tr : tr.type \in {"text", "speak"})
    IN [k \in 1..Len(kept) |-> kept[k].payload.message]

WellFormed(traces) ==
    \A k \in 1..Len(traces) :
        traces[k].type \in {"text", "speak"} => "message" \in DOMAIN traces[k].payload

C9_Claim == \A c \in Range(origin) : c = activeConversationId \/ c = NULL

(* C10 -- the ids of the messages in the transcript are pairwise distinct. *)
C10_Claim ==
    \A j, k \in 1..Len(messages) : j # k => messages[j].id # messages[k].id

(* C11 -- while no user is signed in (from logout until the next login
   completes) the transcript is empty, the conversation registry is empty and
   no conversation is active, also when a call that was in flight at logout
   completes afterwards. *)
C11_Claim ==
    user = NoUser =>
        /\ messages = <<>>
        /\ conversations = <<>>
        /\ activeConversationId = NULL

====
